---- MODULE Spec2Model ----
(***************************************************************************)
(* Money Manager Export (src/main.rs): date-range resolution              *)
(* (init_config, parse_month, get_days_from_month), the report loop       *)
(* (query_and_print over get_query_statement) and the record normalizers  *)
(* (process_amount, process_date, ...).                                   *)
(*                                                                         *)
(* Strings are TLC strings; Len, SubSeq and \o act on them character by   *)
(* character.  Option<T> is a record: None, or Some(v).                   *)
(***************************************************************************)
EXTENDS Integers, Sequences, FiniteSets, TLC

VARIABLES
    args,      \* Args: start_date, end_date, month (each Option<String>)
    clock,     \* the date chrono::Utc::now() returns when it is read
    ticks,     \* how many times the clock's date has advanced
    reads,     \* history: the clock dates init_config has read
    run,       \* main(): position and locals of init_config, and Config
    ref,       \* the same init_config, same start/end, run without --month
    db,        \* contents of the backup store opened by query_and_print
    rows,      \* query_and_print: rows not yet returned by rows.next()
    out,       \* standard output, one entry per println!
    tot_amt,   \* query_and_print: tot_amt, in thousandths
    fn         \* a single call of a pure helper: its input and its result

vars == <<args, clock, ticks, reads, run, ref, db, rows, out, tot_amt, fn>>

None == [some |-> FALSE]
Some(v) == [some |-> TRUE, v |-> v]

Ok(v) == [ok |-> TRUE, v |-> v]
Panic == [ok |-> FALSE]

(***************************************************************************)
(* Bounds of the model.                                                    *)
(***************************************************************************)
MaxTicks == 1
MaxYearSpan == 10
MaxAmountMilli == 2100

(***************************************************************************)
(* Characters.                                                             *)
(***************************************************************************)
Char(s, i) == SubSeq(s, i, i)
Digits == "0123456789"
UpperChars == "ABCDEFGHIJKLMNOPQRSTUVWXYZ"
LowerChars == "abcdefghijklmnopqrstuvwxyz"

IsDigit(c) == \E i \in 1..10 : Char(Digits, i) = c
DigitVal(c) == (CHOOSE i \in 1..10 : Char(Digits, i) = c) - 1

\* char::to_lowercase, on the ASCII letters
LowerChar(c) ==
    IF \E i \in 1..26 : Char(UpperChars, i) = c
    THEN Char(LowerChars, CHOOSE i \in 1..26 : Char(UpperChars, i) = c)
    ELSE c

RECURSIVE to_lowercase(_)
to_lowercase(s) ==
    IF s = "" THEN "" ELSE LowerChar(Head(s)) \o to_lowercase(Tail(s))

\* decimal digits of a natural number
RECURSIVE NatToStr(_)
NatToStr(n) ==
    IF n < 10 THEN Char(Digits, n + 1)
    ELSE NatToStr(n \div 10) \o Char(Digits, (n % 10) + 1)

RECURSIVE ZeroPad(_, _)
ZeroPad(s, width) == IF Len(s) >= width THEN s ELSE ZeroPad("0" \o s, width)

\* value of a string of decimal digits
RECURSIVE DigitsToNat(_)
DigitsToNat(s) ==
    IF s = "" THEN 0
    ELSE 10 * DigitsToNat(SubSeq(s, 1, Len(s) - 1)) + DigitVal(Char(s, Len(s)))

\* length of the longest prefix of s made of digits, at most max long
RECURSIVE DigitPrefix(_, _)
DigitPrefix(s, max) ==
    IF max = 0 \/ s = "" \/ ~IsDigit(Head(s)) THEN 0
    ELSE 1 + DigitPrefix(Tail(s), max - 1)

(***************************************************************************)
(* chrono::NaiveDate: the proleptic Gregorian calendar.                    *)
(***************************************************************************)
MAX_YEAR == 262143
MIN_YEAR == -262144

IsLeapYear(y) == y % 4 = 0 /\ (y % 100 # 0 \/ y % 400 = 0)

\* days of the year before the first day of month m
CumulDays(y, m) ==
    LET c == <<0, 31, 59, 90, 120, 151, 181, 212, 243, 273, 304, 334, 365>>
    IN  c[m] + (IF m > 2 /\ IsLeapYear(y) THEN 1 ELSE 0)

\* NaiveDate::from_ymd_opt
from_ymd_opt(y, m, d) ==
    IF /\ y >= MIN_YEAR /\ y <= MAX_YEAR
       /\ m >= 1 /\ m <= 12
       /\ d >= 1 /\ d <= CumulDays(y, m + 1) - CumulDays(y, m)
    THEN Some([year |-> y, month |-> m, day |-> d])
    ELSE None

\* days from the calendar's day zero
DayNumber(date) ==
    LET p == date.year - 1
    IN  365 * p + (p \div 4) - (p \div 100) + (p \div 400)
        + CumulDays(date.year, date.month) + date.day

\* NaiveDate::signed_duration_since(..).num_days()
num_days_since(a, b) == DayNumber(a) - DayNumber(b)

\* impl Display for NaiveDate
date_to_string(date) ==
    LET y == date.year
        ys == IF y >= 0 /\ y <= 9999 THEN ZeroPad(NatToStr(y), 4)
              ELSE IF y < 0 THEN "-" \o ZeroPad(NatToStr(-y), 4)
              ELSE "+" \o ZeroPad(NatToStr(y), 4)
    IN  ys \o "-" \o ZeroPad(NatToStr(date.month), 2)
           \o "-" \o ZeroPad(NatToStr(date.day), 2)

\* str::trim_start / trim_end / trim, on the space character
RECURSIVE trim_start(_)
trim_start(s) == IF s # "" /\ Head(s) = " " THEN trim_start(Tail(s)) ELSE s

RECURSIVE trim_end(_)
trim_end(s) ==
    IF s # "" /\ Char(s, Len(s)) = " "
    THEN trim_end(SubSeq(s, 1, Len(s) - 1)) ELSE s

trim(s) == trim_end(trim_start(s))

\* chrono's scan::number after the leading blanks are dropped: at least one
\* and at most max digits; the value and the rest of the input
scan_number(s, max) ==
    LET n == DigitPrefix(s, max)
    IN  IF n = 0 THEN None
        ELSE Some([v |-> DigitsToNat(SubSeq(s, 1, n)),
                   rest |-> SubSeq(s, n + 1, Len(s))])

\* a numeric item of the format: %Y is signed and four digits wide unless a
\* sign is written, %m and %d are unsigned and two digits wide
parse_numeric(s0, signed, width) ==
    LET s == trim_start(s0)
    IN  IF signed /\ s # "" /\ Head(s) = "-"
        THEN LET r == scan_number(Tail(s), Len(s))
             IN  IF r.some THEN Some([v |-> -r.v.v, rest |-> r.v.rest]) ELSE None
        ELSE IF signed /\ s # "" /\ Head(s) = "+"
        THEN scan_number(Tail(s), Len(s))
        ELSE scan_number(s, width)

\* the literal "-" of the format
parse_dash(s) == IF s # "" /\ Head(s) = "-" THEN Some(Tail(s)) ELSE None

\* NaiveDate::parse_from_str(s, "%Y-%m-%d"): Some(date), or None for an Err
parse_from_str(s) ==
    LET y == parse_numeric(s, TRUE, 4)
    IN  IF ~y.some THEN None ELSE
        LET d1 == parse_dash(y.v.rest)
        IN  IF ~d1.some THEN None ELSE
            LET m == parse_numeric(d1.v, FALSE, 2)
            IN  IF ~m.some THEN None ELSE
                LET d2 == parse_dash(m.v.rest)
                IN  IF ~d2.some THEN None ELSE
                    LET d == parse_numeric(d2.v, FALSE, 2)
                    IN  IF ~d.some THEN None
                        ELSE IF d.v.rest # "" THEN None
                        ELSE from_ymd_opt(y.v.v, m.v.v, d.v.v)

(***************************************************************************)
(* get_days_from_month (main.rs 46-63)                                     *)
(***************************************************************************)
\* Ok(days), or Panic when an expect()/unwrap() of the function fails; the
\* day difference of two dates always fits u32 unless it is negative
get_days_from_month(year, month) ==
    LET next == from_ymd_opt(IF month = 12 THEN year + 1 ELSE year,
                             IF month = 12 THEN 1 ELSE month + 1,
                             1)
        first == from_ymd_opt(year, month, 1)
    IN  IF ~next.some \/ ~first.some THEN Panic
        ELSE LET n == num_days_since(next.v, first.v)
             IN  IF n < 0 THEN Panic ELSE Ok(n)

(***************************************************************************)
(* parse_month (main.rs 80-147)                                            *)
(***************************************************************************)
months ==
    << <<"jan", 1>>, <<"january", 1>>, <<"ene", 1>>, <<"enero", 1>>,
       <<"feb", 2>>, <<"february", 2>>, <<"febrero", 2>>,
       <<"mar", 3>>, <<"march", 3>>, <<"marzo", 3>>,
       <<"apr", 4>>, <<"april", 4>>, <<"abr", 4>>, <<"abril", 4>>,
       <<"may", 5>>, <<"mayo", 5>>,
       <<"jun", 6>>, <<"june", 6>>, <<"junio", 6>>,
       <<"jul", 7>>, <<"july", 7>>, <<"julio", 7>>,
       <<"aug", 8>>, <<"august", 8>>, <<"ago", 8>>, <<"agosto", 8>>,
       <<"sep", 9>>, <<"september", 9>>, <<"septiembre", 9>>,
       <<"oct", 10>>, <<"october", 10>>, <<"octubre", 10>>,
       <<"nov", 11>>, <<"november", 11>>, <<"noviembre", 11>>,
       <<"dec", 12>>, <<"december", 12>>, <<"dic", 12>>, <<"diciembre", 12>> >>

months_contains_key(k) == \E i \in 1..Len(months) : months[i][1] = k
months_get(k) == months[CHOOSE i \in 1..Len(months) : months[i][1] = k][2]

\* str::parse::<u8>(): an optional "+", then digits only, value at most 255
parse_u8(s) ==
    LET body == IF s # "" /\ Head(s) = "+" THEN Tail(s) ELSE s
    IN  IF body = "" \/ DigitPrefix(body, Len(body)) # Len(body) THEN None
        ELSE IF DigitsToNat(body) > 255 THEN None
        ELSE Some(DigitsToNat(body))

\* the same with the lower end of the range check dropped
parse_month_nolower(month) ==
    IF ~month.some THEN None
    ELSE IF months_contains_key(to_lowercase(month.v))
         THEN Some(months_get(to_lowercase(month.v)))
         ELSE LET n == parse_u8(month.v)
              IN  IF n.some /\ n.v <= 12 THEN n ELSE None

parse_month(month) ==
    IF ~month.some THEN None
    ELSE IF months_contains_key(to_lowercase(month.v))
         THEN Some(months_get(to_lowercase(month.v)))
         ELSE LET n == parse_u8(month.v)
              IN  IF n.some /\ n.v >= 1 /\ n.v <= 12 THEN n ELSE None

(***************************************************************************)
(* Record normalizers (main.rs 148-187).  Amounts are non-negative and     *)
(* held in thousandths.                                                    *)
(***************************************************************************)
process_category(category) == trim(category)

process_name(name) == trim(name)

\* amount.floor(), ",", and (100.0 * amount.fract()).round() printed with {:02}
process_amount(amount) ==
    LET integer_part == NatToStr(amount \div 1000)
        rounded == ((amount % 1000) + 5) \div 10
        decimal_part == ZeroPad(NatToStr(rounded), 2)
    IN  integer_part \o "," \o decimal_part

\* the pieces of s between the "-" separators, last piece first
RECURSIVE rsplit_dash(_, _)
rsplit_dash(s, piece) ==
    IF s = "" THEN <<piece>>
    ELSE IF Head(s) = "-" THEN rsplit_dash(Tail(s), "") \o <<piece>>
    ELSE rsplit_dash(Tail(s), piece \o Head(s))

RECURSIVE join_slash(_)
join_slash(parts) ==
    IF Len(parts) = 1 THEN parts[1]
    ELSE parts[1] \o "/" \o join_slash(Tail(parts))

process_date(date) == join_slash(rsplit_dash(date, ""))

process_payment_method(pay_method) ==
    CASE pay_method = "Tickets" -> "Ti"
      [] pay_method = "Transferencia" -> "T"
      [] pay_method = "Efectivo" -> "E"
      [] pay_method = "T. Débito" -> "TD"
      [] pay_method = "T. Crédito" -> "TC"
      [] pay_method = "PayPal" -> "P"
      [] OTHER -> "INVALID"

\* format!("{:.2}", tot_amt): two fraction digits, a half rounding to even
format_total(tot) ==
    LET cents == tot \div 10
        rest == tot % 10
        up == rest > 5 \/ (rest = 5 /\ cents % 2 = 1)
        c == IF up THEN cents + 1 ELSE cents
    IN  NatToStr(c \div 100) \o "." \o ZeroPad(NatToStr(c % 100), 2)

(***************************************************************************)
(* The store and get_query_statement (main.rs 65-78).                      *)
(***************************************************************************)
\* characters of the date strings in byte order
ByteOrder == " +-/0123456789"
Byte(c) == CHOOSE i \in 1..Len(ByteOrder) : Char(ByteOrder, i) = c

\* a <= b as SQLite compares TEXT: byte by byte, a prefix first
RECURSIVE TextLE(_, _)
TextLE(a, b) ==
    IF a = "" THEN TRUE
    ELSE IF b = "" THEN FALSE
    ELSE IF Head(a) # Head(b) THEN Byte(Head(a)) < Byte(Head(b))
    ELSE TextLE(Tail(a), Tail(b))

\* the WHERE clause without its deleted-entries condition
query_where_nodel(z, a, c, p1, p2) ==
    /\ TextLE(p1, z.ZTXDATESTR) /\ TextLE(z.ZTXDATESTR, p2)
    /\ z.ZDO_TYPE = 1
    /\ z.ZASSETUID = a.ZUID
    /\ z.ZCATEGORYUID = c.ZUID

\* the WHERE clause: ?1 and ?2 are p1 and p2
query_where(z, a, c, p1, p2) ==
    /\ TextLE(p1, z.ZTXDATESTR) /\ TextLE(z.ZTXDATESTR, p2)
    /\ z.ZISDEL = 0
    /\ z.ZDO_TYPE = 1
    /\ z.ZASSETUID = a.ZUID
    /\ z.ZCATEGORYUID = c.ZUID

\* the rows the SELECT yields; z, a and c name the joined rows
query_rows(d, p1, p2) ==
    { [z |-> z.Z_PK, a |-> a.Z_PK, c |-> c.Z_PK,
       zdate |-> z.ZDATE, ztxdatestr |-> z.ZTXDATESTR, zname |-> c.ZNAME,
       zcontent |-> z.ZCONTENT, zamount |-> z.ZAMOUNT, znicname |-> a.ZNICNAME] :
       <<z, a, c>> \in { t \in d.ZINOUTCOME \X d.ZASSET \X d.ZCATEGORY :
                           query_where(t[1], t[2], t[3], p1, p2) } }

\* ORDER BY z.zdate ASC: every order of the rows that ascends in zdate
query_ordered(S) ==
    { s \in [1..Cardinality(S) -> S] :
        /\ \A i, j \in DOMAIN s : i # j => s[i] # s[j]
        /\ \A i, j \in DOMAIN s : i < j => s[i].zdate <= s[j].zdate }

(***************************************************************************)
(* Inputs: command lines, clock dates and stores.                          *)
(***************************************************************************)
StartInputs ==
    { None, Some("2023-05-01"), Some("2023-2-1"), Some("2023-06-01"),
      Some("2023-13-01"), Some("+262143-12-01") }

EndInputs == { None, Some("2023-05-31"), Some("2023-05-01"), Some("2023-02-30") }

MonthInputs ==
    { None, Some("february"), Some("FEB"), Some("Enero"), Some("dic"),
      Some("2"), Some("12"), Some("13"), Some("0"), Some("febr") }

Date(y, m, d) == [year |-> y, month |-> m, day |-> d]

ClockInputs ==
    { Date(2024, 3, 15), Date(2024, 1, 10), Date(2024, 12, 31),
      Date(2023, 12, 31), Date(2024, 3, 31) }

Asset(pk, uid, name) == [Z_PK |-> pk, ZUID |-> uid, ZNICNAME |-> name]
Category(pk, uid, name) == [Z_PK |-> pk, ZUID |-> uid, ZNAME |-> name]
InOutcome(pk, zdate, datestr, content, amount, isdel, type, asset, category) ==
    [Z_PK |-> pk, ZDATE |-> zdate, ZTXDATESTR |-> datestr, ZCONTENT |-> content,
     ZAMOUNT |-> amount, ZISDEL |-> isdel, ZDO_TYPE |-> type,
     ZASSETUID |-> asset, ZCATEGORYUID |-> category]

Assets == { Asset(1, "a1", "Efectivo"), Asset(2, "a2", "PayPal") }
Categories == { Category(1, "c1", " Comida ") }

\* no store opened yet
NoDb == [schema_ok |-> FALSE, io_error_at |-> 0,
         ZINOUTCOME |-> {}, ZASSET |-> {}, ZCATEGORY |-> {}]

\* three expenses, the third outside May 2023
DbScenario ==
    [schema_ok |-> TRUE, io_error_at |-> 0, ZASSET |-> Assets, ZCATEGORY |-> Categories,
     ZINOUTCOME |->
       { InOutcome(1, 100, "2023-05-01", Some("pan "), 10000, 0, 1, "a1", "c1"),
         InOutcome(2, 200, "2023-05-15", Some("libro"), 20500, 0, 1, "a2", "c1"),
         InOutcome(3, 300, "2023-06-01", Some("cine"), 5000, 0, 1, "a1", "c1") }]

\* timestamps against the key order and tied, a deleted entry, an income
DbFiltered ==
    [schema_ok |-> TRUE, io_error_at |-> 0, ZASSET |-> Assets, ZCATEGORY |-> Categories,
     ZINOUTCOME |->
       { InOutcome(1, 300, "2023-05-31", Some("a"), 7000, 0, 1, "a1", "c1"),
         InOutcome(2, 100, "2023-05-02", Some("b"), 1250, 0, 1, "a2", "c1"),
         InOutcome(3, 100, "2023-05-03", Some("c"), 300, 0, 1, "a1", "c1"),
         InOutcome(4, 150, "2023-05-04", Some("d"), 900, 1, 1, "a1", "c1"),
         InOutcome(5, 160, "2023-05-05", Some("e"), 800, 0, 0, "a1", "c1"),
         InOutcome(6, 400, "2024-02-29", Some("f"), 100, 0, 1, "a1", "c1") }]

\* the second row's description is NULL
DbNullContent ==
    [schema_ok |-> TRUE, io_error_at |-> 0, ZASSET |-> Assets, ZCATEGORY |-> Categories,
     ZINOUTCOME |->
       { InOutcome(1, 100, "2023-05-01", Some("pan"), 10000, 0, 1, "a1", "c1"),
         InOutcome(2, 200, "2023-05-15", None, 20500, 0, 1, "a2", "c1") }]

\* stepping the statement fails at the second row
DbIoError == [DbScenario EXCEPT !.io_error_at = 2]

\* a file that holds none of the three tables
DbNoSchema == NoDb

\* an expense whose asset is not stored, one whose category is stored twice
DbLooseKeys ==
    [schema_ok |-> TRUE, io_error_at |-> 0, ZASSET |-> Assets,
     ZCATEGORY |-> Categories \cup { Category(2, "c2", "Ocio"), Category(3, "c2", "Ocio") },
     ZINOUTCOME |->
       { InOutcome(1, 100, "2023-05-01", Some("pan"), 10000, 0, 1, "a1", "c1"),
         InOutcome(2, 200, "2023-05-15", Some("libro"), 20500, 0, 1, "a9", "c1"),
         InOutcome(3, 300, "2023-05-16", Some("cine"), 5000, 0, 1, "a1", "c2") }]

Stores == { DbScenario, DbFiltered, DbNullContent, DbIoError, DbNoSchema, DbLooseKeys }

(***************************************************************************)
(* init_config (main.rs 220-324), one step per clock read.                 *)
(***************************************************************************)
InitRun ==
    [pc |-> "check_file", resolved |-> FALSE, month_opt |-> None, end_day |-> 0,
     year |-> 0, start_date |-> "", end_date |-> "",
     start_nd |-> None, end_nd |-> None, stderr |-> <<>>]

Panicked(r) == [r EXCEPT !.pc = "panic"]
Exit1(r, msg) == [r EXCEPT !.pc = "exit1", !.stderr = Append(r.stderr, msg)]

\* 225-230
check_file(r, readable) ==
    IF ~readable THEN Exit1(r, "Cannot read database file")
    ELSE [r EXCEPT !.pc = "parse_month"]

\* 232-233, 256-258, 272-274
parse_month_arg(r, a) ==
    LET m == parse_month(a.month)
    IN  IF m.some THEN [r EXCEPT !.month_opt = m, !.pc = "month_end_day"]
        ELSE IF ~a.start_date.some
        THEN [r EXCEPT !.month_opt = m, !.pc = "default_month_test"]
        ELSE [r EXCEPT !.month_opt = m, !.start_date = a.start_date.v,
                       !.pc = "check_start"]

\* 236
month_end_day(r, now) ==
    LET n == get_days_from_month(now.year, r.month_opt.v)
    IN  IF n.ok THEN [r EXCEPT !.end_day = n.v, !.pc = "month_start"]
        ELSE Panicked(r)

\* 238-241
month_start(r, now) ==
    LET d == from_ymd_opt(now.year, r.month_opt.v, 1)
    IN  IF d.some
        THEN [r EXCEPT !.start_nd = d, !.start_date = date_to_string(d.v),
                       !.pc = "month_end"]
        ELSE Panicked(r)

\* 243-251
month_end(r, now) ==
    LET d == from_ymd_opt(now.year, r.month_opt.v, r.end_day)
    IN  IF d.some
        THEN [r EXCEPT !.end_nd = d, !.end_date = date_to_string(d.v),
                       !.resolved = TRUE, !.pc = "query"]
        ELSE Panicked(r)

\* 261
default_month_test(r, now) ==
    IF now.month = 1 THEN [r EXCEPT !.pc = "default_jan"]
    ELSE [r EXCEPT !.pc = "default_year"]

\* the same with December taken in the current year
default_jan_sameyear(r, now) ==
    LET d == from_ymd_opt(now.year, 12, 1)
    IN  IF d.some
        THEN [r EXCEPT !.start_nd = d, !.start_date = date_to_string(d.v),
                       !.pc = "check_start"]
        ELSE Panicked(r)

\* 262, 271
default_jan(r, now) ==
    LET d == from_ymd_opt(now.year - 1, 12, 1)
    IN  IF d.some
        THEN [r EXCEPT !.start_nd = d, !.start_date = date_to_string(d.v),
                       !.pc = "check_start"]
        ELSE Panicked(r)

\* 265
default_year(r, now) == [r EXCEPT !.year = now.year, !.pc = "default_month"]

\* 266-271
default_month(r, now) ==
    LET d == from_ymd_opt(r.year, now.month - 1, 1)
    IN  IF d.some
        THEN [r EXCEPT !.start_nd = d, !.start_date = date_to_string(d.v),
                       !.pc = "check_start"]
        ELSE Panicked(r)

\* 276-287
check_start(r) ==
    LET p == parse_from_str(r.start_date)
    IN  IF ~p.some
        THEN Exit1(r, "Invalid start date provided: '" \o r.start_date
                      \o "'. Please use format YYYY-MM-DD and a valid date")
        ELSE [r EXCEPT !.start_nd = p, !.start_date = date_to_string(p.v),
                       !.pc = "resolve_end"]

\* 289-307
resolve_end(r, a) ==
    IF ~a.end_date.some
    THEN LET n == get_days_from_month(r.start_nd.v.year, r.start_nd.v.month)
         IN  IF ~n.ok THEN Panicked(r)
             ELSE LET d == from_ymd_opt(r.start_nd.v.year, r.start_nd.v.month, n.v)
                  IN  IF d.some
                      THEN [r EXCEPT !.end_date = date_to_string(d.v),
                                     !.pc = "check_end"]
                      ELSE Panicked(r)
    ELSE [r EXCEPT !.end_date = a.end_date.v, !.pc = "check_end"]

\* 309-324
check_end(r) ==
    LET p == parse_from_str(r.end_date)
    IN  IF ~p.some
        THEN Exit1(r, "Invalid end date provided: '" \o r.end_date
                      \o "'. Please use format YYYY-MM-DD and a valid date")
        ELSE [r EXCEPT !.end_nd = p, !.end_date = date_to_string(p.v),
                       !.resolved = TRUE, !.pc = "query"]

(***************************************************************************)
(* The run of main(): init_config, then query_and_print.                   *)
(***************************************************************************)
NoCall == [f |-> "none"]

NoMonth(a) == [a EXCEPT !.month = None]

\* the day after date: the clock's date advancing
NextDay(date) ==
    IF from_ymd_opt(date.year, date.month, date.day + 1).some
    THEN Date(date.year, date.month, date.day + 1)
    ELSE IF date.month < 12 THEN Date(date.year, date.month + 1, 1)
    ELSE Date(date.year + 1, 1, 1)

Init ==
    /\ args \in [start_date : StartInputs, end_date : EndInputs, month : MonthInputs]
    /\ clock \in ClockInputs
    /\ ticks = 0
    /\ reads = {}
    /\ run = InitRun
    /\ ref = InitRun
    /\ db = NoDb
    /\ rows = <<>>
    /\ out = <<>>
    /\ tot_amt = 0
    /\ fn = NoCall

InInitConfig(r) == ~r.resolved /\ r.pc \notin {"exit1", "panic", "idle"}

\* chrono::Utc::now() moves to the next day while init_config runs
Tick ==
    /\ InInitConfig(run)
    /\ ticks < MaxTicks
    /\ clock' = NextDay(clock)
    /\ ticks' = ticks + 1
    /\ UNCHANGED <<args, reads, run, ref, db, rows, out, tot_amt, fn>>

CheckDatabaseFile ==
    /\ run.pc = "check_file"
    /\ \E readable \in BOOLEAN :
          /\ run' = check_file(run, readable)
          /\ ref' = check_file(ref, readable)
    /\ UNCHANGED <<args, clock, ticks, reads, db, rows, out, tot_amt, fn>>

ParseMonthArg ==
    /\ run.pc = "parse_month"
    /\ run' = parse_month_arg(run, args)
    /\ ref' = parse_month_arg(ref, NoMonth(args))
    /\ UNCHANGED <<args, clock, ticks, reads, db, rows, out, tot_amt, fn>>

MonthEndDay ==
    /\ run.pc = "month_end_day"
    /\ run' = month_end_day(run, clock)
    /\ reads' = reads \cup {clock}
    /\ UNCHANGED <<args, clock, ticks, ref, db, rows, out, tot_amt, fn>>

MonthStart ==
    /\ run.pc = "month_start"
    /\ run' = month_start(run, clock)
    /\ reads' = reads \cup {clock}
    /\ UNCHANGED <<args, clock, ticks, ref, db, rows, out, tot_amt, fn>>

MonthEnd ==
    /\ run.pc = "month_end"
    /\ run' = month_end(run, clock)
    /\ reads' = reads \cup {clock}
    /\ UNCHANGED <<args, clock, ticks, ref, db, rows, out, tot_amt, fn>>

DefaultMonthTest ==
    /\ run.pc = "default_month_test"
    /\ run' = default_month_test(run, clock)
    /\ ref' = IF ref.pc = run.pc THEN default_month_test(ref, clock) ELSE ref
    /\ reads' = reads \cup {clock}
    /\ UNCHANGED <<args, clock, ticks, db, rows, out, tot_amt, fn>>

DefaultJan ==
    /\ run.pc = "default_jan"
    /\ run' = default_jan(run, clock)
    /\ ref' = IF ref.pc = run.pc THEN default_jan(ref, clock) ELSE ref
    /\ reads' = reads \cup {clock}
    /\ UNCHANGED <<args, clock, ticks, db, rows, out, tot_amt, fn>>

DefaultYear ==
    /\ run.pc = "default_year"
    /\ run' = default_year(run, clock)
    /\ ref' = IF ref.pc = run.pc THEN default_year(ref, clock) ELSE ref
    /\ reads' = reads \cup {clock}
    /\ UNCHANGED <<args, clock, ticks, db, rows, out, tot_amt, fn>>

DefaultMonth ==
    /\ run.pc = "default_month"
    /\ run' = default_month(run, clock)
    /\ ref' = IF ref.pc = run.pc THEN default_month(ref, clock) ELSE ref
    /\ reads' = reads \cup {clock}
    /\ UNCHANGED <<args, clock, ticks, db, rows, out, tot_amt, fn>>

CheckStart ==
    /\ run.pc = "check_start"
    /\ run' = check_start(run)
    /\ ref' = IF ref.pc = run.pc THEN check_start(ref) ELSE ref
    /\ UNCHANGED <<args, clock, ticks, reads, db, rows, out, tot_amt, fn>>

ResolveEnd ==
    /\ run.pc = "resolve_end"
    /\ run' = resolve_end(run, args)
    /\ ref' = IF ref.pc = run.pc THEN resolve_end(ref, NoMonth(args)) ELSE ref
    /\ UNCHANGED <<args, clock, ticks, reads, db, rows, out, tot_amt, fn>>

CheckEnd ==
    /\ run.pc = "check_end"
    /\ run' = check_end(run)
    /\ ref' = IF ref.pc = run.pc THEN check_end(ref) ELSE ref
    /\ UNCHANGED <<args, clock, ticks, reads, db, rows, out, tot_amt, fn>>

(***************************************************************************)
(* query_and_print (main.rs 188-218)                                       *)
(***************************************************************************)
HeaderLine == "fecha;categoría;comentario;importe;forma pago"

\* 204-211: the line printed for a row
row_line(row) ==
    process_date(row.ztxdatestr) \o ";" \o process_category(row.zname) \o ";"
    \o process_name(row.zcontent.v) \o ";" \o process_amount(row.zamount) \o ";"
    \o process_payment_method(row.znicname)

\* 189-198: open the store, prepare the statement, bind the two dates
OpenAndQuery ==
    /\ run.pc = "query"
    /\ \E d \in Stores :
          /\ db' = d
          /\ IF ~d.schema_ok
             THEN run' = Panicked(run) /\ rows' = rows
             ELSE /\ rows' \in query_ordered(query_rows(d, run.start_date, run.end_date))
                  /\ run' = [run EXCEPT !.pc = "header"]
    /\ UNCHANGED <<args, clock, ticks, reads, ref, out, tot_amt, fn>>

\* 200-201
PrintHeader ==
    /\ run.pc = "header"
    /\ out' = Append(out, [kind |-> "header", text |-> HeaderLine])
    /\ tot_amt' = 0
    /\ run' = [run EXCEPT !.pc = "loop"]
    /\ UNCHANGED <<args, clock, ticks, reads, ref, db, rows, fn>>

\* 202-213: one turn of the loop; Len(out) rows were asked for so far
ProcessRow ==
    /\ run.pc = "loop"
    /\ rows # <<>>
    /\ IF db.io_error_at = Len(out) \/ ~Head(rows).zcontent.some
       THEN /\ run' = Panicked(run)
            /\ UNCHANGED <<rows, out, tot_amt>>
       ELSE /\ out' = Append(out, [kind |-> "row", z |-> Head(rows).z,
                                   a |-> Head(rows).a, c |-> Head(rows).c,
                                   text |-> row_line(Head(rows))])
            /\ tot_amt' = tot_amt + Head(rows).zamount
            /\ rows' = Tail(rows)
            /\ run' = run
    /\ UNCHANGED <<args, clock, ticks, reads, ref, db, fn>>

\* 202, 215: rows.next() yields None, the total is printed, main returns
PrintTotal ==
    /\ run.pc = "loop"
    /\ rows = <<>>
    /\ IF db.io_error_at = Len(out)
       THEN run' = Panicked(run) /\ out' = out
       ELSE /\ out' = Append(out, [kind |-> "total",
                                   text |-> "Total: " \o format_total(tot_amt)])
            /\ run' = [run EXCEPT !.pc = "done"]
    /\ UNCHANGED <<args, clock, ticks, reads, ref, db, rows, tot_amt, fn>>

Next ==
    \/ Tick
    \/ CheckDatabaseFile
    \/ ParseMonthArg
    \/ MonthEndDay
    \/ MonthStart
    \/ MonthEnd
    \/ DefaultMonthTest
    \/ DefaultJan
    \/ DefaultYear
    \/ DefaultMonth
    \/ CheckStart
    \/ ResolveEnd
    \/ CheckEnd
    \/ OpenAndQuery
    \/ PrintHeader
    \/ ProcessRow
    \/ PrintTotal

Spec == Init /\ [][Next]_vars

(***************************************************************************)
(* Single calls of get_days_from_month and of process_amount.              *)
(***************************************************************************)
IdleRun == [InitRun EXCEPT !.pc = "idle"]

Idle ==
    /\ args = [start_date |-> None, end_date |-> None, month |-> None]
    /\ clock = Date(2024, 3, 15)
    /\ ticks = 0
    /\ reads = {}
    /\ run = IdleRun
    /\ ref = IdleRun
    /\ db = NoDb
    /\ rows = <<>>
    /\ out = <<>>
    /\ tot_amt = 0

SampleYears ==
    (1896..(1895 + MaxYearSpan))
        \cup {1900, 2000, 2023, 2024, 2100, MIN_YEAR, MAX_YEAR - 1, MAX_YEAR}

InitDays ==
    /\ Idle
    /\ fn \in [f : {"get_days_from_month"}, year : SampleYears, month : 1..12,
               result : {None}]

CallGetDaysFromMonth ==
    /\ fn.f = "get_days_from_month"
    /\ ~fn.result.some
    /\ fn' = [fn EXCEPT !.result = Some(get_days_from_month(fn.year, fn.month))]
    /\ UNCHANGED <<args, clock, ticks, reads, run, ref, db, rows, out, tot_amt>>

SpecDays == InitDays /\ [][CallGetDaysFromMonth]_vars

SampleAmounts == (0..MaxAmountMilli) \cup {1234500}

InitAmount ==
    /\ Idle
    /\ fn \in [f : {"process_amount"}, amount : SampleAmounts, result : {None}]

CallProcessAmount ==
    /\ fn.f = "process_amount"
    /\ ~fn.result.some
    /\ fn' = [fn EXCEPT !.result = Some(process_amount(fn.amount))]
    /\ UNCHANGED <<args, clock, ticks, reads, run, ref, db, rows, out, tot_amt>>

SpecAmount == InitAmount /\ [][CallProcessAmount]_vars

(***************************************************************************)
(* What the claims speak of, stated apart from the code above.             *)
(***************************************************************************)
\* the sample month tokens that name a month, and the month each names
ValidTokens == {"february", "FEB", "Enero", "dic", "2", "12"}
ExpectedMonth(tok) ==
    CASE tok \in {"february", "FEB", "2"} -> 2
      [] tok = "Enero" -> 1
      [] tok \in {"dic", "12"} -> 12

\* the sample month tokens that name no month
InvalidTokens == {"13", "0", "febr"}

\* the sample date inputs that are no calendar date
InvalidDates == {"2023-13-01", "2023-02-30"}

\* the sample start dates that are calendar dates, and the date each writes
ExpectedDate(s) ==
    CASE s = "2023-05-01" -> Date(2023, 5, 1)
      [] s = "2023-2-1" -> Date(2023, 2, 1)
      [] s = "2023-06-01" -> Date(2023, 6, 1)
      [] s = "+262143-12-01" -> Date(262143, 12, 1)

GregorianLeap(y) == (y % 4 = 0 /\ y % 100 # 0) \/ y % 400 = 0

LastDayOfMonth(y, m) ==
    IF m \in {4, 6, 9, 11} THEN 30
    ELSE IF m = 2 THEN (IF GregorianLeap(y) THEN 29 ELSE 28)
    ELSE 31

\* YYYY-MM-DD, zero padded, for a year of at most four digits
IsoDate(y, m, d) ==
    ZeroPad(NatToStr(y), 4) \o "-" \o ZeroPad(NatToStr(m), 2)
        \o "-" \o ZeroPad(NatToStr(d), 2)

DateLE(a, b) ==
    \/ a.year < b.year
    \/ a.year = b.year /\ a.month < b.month
    \/ a.year = b.year /\ a.month = b.month /\ a.day <= b.day

\* the first day of the month before now's
PreviousMonth(now) ==
    IF now.month = 1 THEN Date(now.year - 1, 12, 1)
    ELSE Date(now.year, now.month - 1, 1)

FileFailed(r) == r.pc = "exit1" /\ r.stderr = <<"Cannot read database file">>

\* init_config is past parse_month and the file was readable
PastParse(r) == r.pc \notin {"check_file", "parse_month", "idle"} /\ ~FileFailed(r)

MonthMode == args.month.some /\ args.month.v \in ValidTokens
ExplicitMode == ~args.month.some \/ args.month.v \in InvalidTokens

\* the clock's date was the same at every read so far
SteadyClock == Cardinality(reads) <= 1

\* how init_config ended, or where it is
Outcome(r) ==
    IF r.resolved
    THEN [kind |-> "returned", start |-> r.start_date, end |-> r.end_date,
          stderr |-> r.stderr]
    ELSE IF r.pc \in {"exit1", "panic"}
    THEN [kind |-> r.pc, start |-> "", end |-> "", stderr |-> r.stderr]
    ELSE [kind |-> "running", start |-> r.start_date, end |-> r.end_date,
          stderr |-> r.stderr]

Terminated == run.pc \in {"done", "exit1", "panic"}

(***************************************************************************)
(* C1: whenever init_config returns, the resolved start date is not later  *)
(* than the resolved end date, in month, default and explicit mode.        *)
(***************************************************************************)
C1_StartNotAfterEnd ==
    run.resolved => DateLE(run.start_nd.v, run.end_nd.v)

\* C1 for the runs whose end date is not taken from --end-date
C1_UnlessExplicitEnd ==
    (run.resolved /\ ~(ExplicitMode /\ args.end_date.some))
        => DateLE(run.start_nd.v, run.end_nd.v)

(***************************************************************************)
(* C2: a month token naming month m resolves the range to the first and    *)
(* last day of month m of now's year, whatever the explicit start and end  *)
(* are, and without failing.                                               *)
(***************************************************************************)
C2_MonthModePrecedence ==
    (PastParse(run) /\ MonthMode) =>
        LET m == ExpectedMonth(args.month.v)
        IN  /\ run.pc # "exit1"
            /\ run.pc = "panic" => run.resolved
            /\ run.resolved =>
                 \E now \in reads :
                    /\ run.start_date = IsoDate(now.year, m, 1)
                    /\ run.end_date = IsoDate(now.year, m, LastDayOfMonth(now.year, m))

\* C2 for the runs during which the clock's date stays the same
C2_SteadyClock == SteadyClock => C2_MonthModePrecedence

C4_InvalidTokenFallsThrough ==
    (PastParse(run) /\ args.month.some /\ args.month.v \in InvalidTokens) =>
        /\ ~run.month_opt.some
        /\ Outcome(run) = Outcome(ref)

\* init_config has returned, and so has the run without the token "13"
C4_Witness ==
    /\ args.month = Some("13")
    /\ run.resolved /\ ref.resolved
    /\ run.start_date = "2023-02-01"

(***************************************************************************)
(* C5: get_days_from_month returns the number of days of the month in the  *)
(* proleptic Gregorian calendar, for every year and every month 1..12.     *)
(***************************************************************************)
C5_DaysInMonth ==
    (fn.f = "get_days_from_month" /\ fn.result.some) =>
        /\ fn.result.v = Ok(LastDayOfMonth(fn.year, fn.month))
        /\ fn.result.v.ok /\ fn.result.v.v \in 28..31

\* C5 for every year but the last one a NaiveDate can hold
C5_BeforeLastYear ==
    (fn.f = "get_days_from_month" /\ fn.result.some /\ fn.year < MAX_YEAR) =>
        fn.result.v = Ok(LastDayOfMonth(fn.year, fn.month))

(***************************************************************************)
(* C6: in explicit/default mode an explicit start date that is no calendar *)
(* date ends the process with exit status 1 and nothing printed; so does   *)
(* such an end date; the start date is checked first.                      *)
(***************************************************************************)
StartDiagnostic(s) ==
    "Invalid start date provided: '" \o s
        \o "'. Please use format YYYY-MM-DD and a valid date"
EndDiagnostic(s) ==
    "Invalid end date provided: '" \o s
        \o "'. Please use format YYYY-MM-DD and a valid date"

BadStart == args.start_date.some /\ args.start_date.v \in InvalidDates
BadEnd == args.end_date.some /\ args.end_date.v \in InvalidDates

C6_InvalidDateIsFatal ==
    (PastParse(run) /\ ExplicitMode) =>
        /\ BadStart =>
              /\ out = <<>> /\ ~run.resolved
              /\ run.pc \in {"check_start", "exit1"}
              /\ run.pc = "exit1" => run.stderr = <<StartDiagnostic(args.start_date.v)>>
        /\ (BadEnd /\ ~BadStart) =>
              /\ out = <<>> /\ ~run.resolved
              /\ run.pc # "panic"
              /\ run.pc = "exit1" => run.stderr = <<EndDiagnostic(args.end_date.v)>>

\* C6 for the runs during which the clock's date stays the same
C6_SteadyClock == SteadyClock => C6_InvalidDateIsFatal

(***************************************************************************)
(* C7: a run writes either the full report (header, rows, total) or        *)
(* nothing, whatever makes it fail.                                        *)
(***************************************************************************)
FullReport ==
    /\ Len(out) >= 2
    /\ out[1].kind = "header"
    /\ out[Len(out)].kind = "total"
    /\ rows = <<>>

C7_AllOrNothing == Terminated => (out = <<>> \/ FullReport)

\* C7 for the runs that end before the header is printed or after the total
C7_OutsideTheLoop ==
    (Terminated /\ (run.pc # "panic" \/ out = <<>>)) => (out = <<>> \/ FullReport)

(***************************************************************************)
(* C8: a run that completes prints the header once and first, one row for  *)
(* each stored record that is not deleted, is an expense and is dated      *)
(* within the resolved range, in ascending timestamp order and no other    *)
(* row, and the total once and last, the sum of the amounts of the rows.   *)
(***************************************************************************)
InRange(z) ==
    /\ z.ZISDEL = 0
    /\ z.ZDO_TYPE = 1
    /\ TextLE(run.start_date, z.ZTXDATESTR)
    /\ TextLE(z.ZTXDATESTR, run.end_date)

Record(pk) == CHOOSE z \in db.ZINOUTCOME : z.Z_PK = pk

RowLines == 2..(Len(out) - 1)

RECURSIVE SumOfRows(_)
SumOfRows(n) == IF n < 2 THEN 0 ELSE Record(out[n].z).ZAMOUNT + SumOfRows(n - 1)

\* an amount of whole cents, written with a period
CentsText(amount) ==
    NatToStr(amount \div 1000) \o "." \o ZeroPad(NatToStr((amount % 1000) \div 10), 2)

\* header first and once, total last and once, rows between, in timestamp
\* order, and the total their sum
ReportFrame ==
    /\ Len(out) >= 2
    /\ out[1] = [kind |-> "header", text |-> HeaderLine]
    /\ out[Len(out)].kind = "total"
    /\ \A i \in RowLines : out[i].kind = "row"
    /\ \A i, j \in RowLines :
          i < j => Record(out[i].z).ZDATE <= Record(out[j].z).ZDATE
    /\ out[Len(out)].text = "Total: " \o CentsText(SumOfRows(Len(out) - 1))
    /\ tot_amt = SumOfRows(Len(out) - 1)

C8_OneRowPerRecord ==
    run.pc = "done" =>
        /\ ReportFrame
        /\ \A z \in db.ZINOUTCOME :
              InRange(z) => Cardinality({i \in RowLines : out[i].z = z.Z_PK}) = 1
        /\ \A i \in RowLines : InRange(Record(out[i].z))

\* the stored assets and categories a record's two references name
Joined(z) ==
    { ac \in db.ZASSET \X db.ZCATEGORY :
        ac[1].ZUID = z.ZASSETUID /\ ac[2].ZUID = z.ZCATEGORYUID }

\* C8 amended: one row for each such record joined with an asset and a
\* category its references name; so one row for a record whose references
\* name one asset and one category, and none for a record with a reference
\* that names nothing
C8_OneRowPerJoinedRecord ==
    run.pc = "done" =>
        /\ ReportFrame
        /\ \A z \in db.ZINOUTCOME : \A ac \in Joined(z) :
              InRange(z) =>
                 Cardinality({i \in RowLines :
                                 /\ out[i].z = z.Z_PK
                                 /\ out[i].a = ac[1].Z_PK
                                 /\ out[i].c = ac[2].Z_PK}) = 1
        /\ \A i \in RowLines :
              /\ InRange(Record(out[i].z))
              /\ \E ac \in Joined(Record(out[i].z)) :
                    out[i].a = ac[1].Z_PK /\ out[i].c = ac[2].Z_PK
        /\ \A z \in db.ZINOUTCOME :
              (InRange(z) /\ Cardinality(Joined(z)) = 1) =>
                 Cardinality({i \in RowLines : out[i].z = z.Z_PK}) = 1

\* the report of the store with tied timestamps, a deleted entry and an
\* income is complete: header, three rows, total
C8_Witness ==
    /\ run.pc = "done"
    /\ db = DbFiltered
    /\ Len(out) = 5
    /\ out[5].text = "Total: 8.55"

(***************************************************************************)
(* C9: process_amount writes the integer part, a comma and exactly two     *)
(* digits, and the number written is the amount rounded to the nearest     *)
(* cent, a half rounding up; also for fractions of .995 and more.          *)
(***************************************************************************)
\* the amount in cents, a half cent rounding up
RoundedCents(amount) == (amount + 5) \div 10

C9_AmountTwoDigits ==
    (fn.f = "process_amount" /\ fn.result.some) =>
        fn.result.v =
            NatToStr(RoundedCents(fn.amount) \div 100) \o ","
                \o ZeroPad(NatToStr(RoundedCents(fn.amount) % 100), 2)

\* C9 for the amounts whose fraction is below .995
C9_BelowCarry ==
    (fn.f = "process_amount" /\ fn.result.some /\ fn.amount % 1000 < 995) =>
        fn.result.v =
            NatToStr(RoundedCents(fn.amount) \div 100) \o ","
                \o ZeroPad(NatToStr(RoundedCents(fn.amount) % 100), 2)

(***************************************************************************)
(* C10: when the clock's date advances between two of init_config's reads  *)
(* of it, init_config still returns without a panic, and the start and the *)
(* end come from one value of now: the month's first and last day in one   *)
(* year in month mode, the month before one now in default mode.           *)
(***************************************************************************)
C10_AsIfReadOnce ==
    (PastParse(run) /\ Cardinality(reads) >= 2) =>
        /\ run.pc = "panic" => run.resolved
        /\ (run.resolved /\ run.month_opt.some) =>
              \E now \in reads :
                 /\ run.start_nd.v = Date(now.year, run.month_opt.v, 1)
                 /\ run.end_nd.v = Date(now.year, run.month_opt.v,
                                        LastDayOfMonth(now.year, run.month_opt.v))
        /\ (run.resolved /\ ~run.month_opt.some) =>
              \E now \in reads : run.start_nd.v = PreviousMonth(now)

\* C10 without the panic: what init_config returns when it returns
C10_DefaultWhenReturned ==
    (run.resolved /\ ~run.month_opt.some /\ ~args.start_date.some) =>
        \E now \in reads : run.start_nd.v = PreviousMonth(now)

====
